---- MODULE Spec2Model ----
(***************************************************************************)
(* Model of the two script timers of the repository:                       *)
(*   src/script_timer.py         ScriptTimer        (PyQt5 GUI)            *)
(*   src/simple_script_timer.py  SimpleScriptTimer  (console)              *)
(*                                                                         *)
(* Time is counted in whole minutes: now is the minute of the day.  The    *)
(* GUI keeps its timers in milliseconds and the console in seconds, as the *)
(* code does; a clock step advances every armed timer by one minute of its *)
(* unit.  A timer that is due fires before the clock moves on.             *)
(***************************************************************************)
EXTENDS Integers, Sequences, FiniteSets, TLC

\* ------------------------------------------------------------------ bounds
\* Minutes in a day of the model (1440 in reality).
DayMinutes == 2
\* Processes tracked in running_processes at one time.
MaxProcs == 2
\* Largest value of the duration spin boxes that is explored (10000 in the code).
MaxSpin == 1
\* Pending QTimer.singleShot callbacks.
MaxShots == 1

\* Timer objects the console appends to self.timers in one run.
MaxTimers == 2
\* Threads repeat_every_time starts in one run.
MaxThreads == 1

\* ------------------------------------------------------- program constants
MsPerMinute == 60000
SecPerMinute == 60
SpinMin == 1

DayMs == DayMinutes * MsPerMinute
\* Connections of schedule_timer.timeout to run_scheduled_script: one timeout
\* launches once per connection.
MaxConns == MaxProcs

VARIABLES
    \* -- both programs
    now,                \* the wall clock: minute of the day, 0..DayMinutes-1
    script_path,        \* self.script_path
    running_processes,  \* self.running_processes: a sequence of process handles
                        \*   [st |-> "running" | "exited" | "terminated"]
    \* -- GUI
    timer,              \* self.timer: [active, interval, remaining] (ms)
    schedule_timer,     \* self.schedule_timer: [active, interval, remaining] (ms)
    sched_conns,        \* connections schedule_timer.timeout -> run_scheduled_script
    shots,              \* pending QTimer.singleShot callbacks: remaining ms of each,
                        \*   soonest first
    close_button,       \* handler connected to close_button.clicked
    repeat_button,      \* handler connected to repeat_button.clicked
    schedule_button,    \* handler connected to schedule_button.clicked
    stop_enabled,       \* self.stop_button.isEnabled()
    status_label,       \* self.status_label.text()
    msgbox,             \* the modal QMessageBox that is open, "" when none
    scheduled_time,     \* scheduled_time of the start_schedule_timer whose schedule is
                        \*   in force, -1 when none is
    close_proc,         \* position in running_processes of the process the last
                        \*   start_close_timer launched; 0 when it launched none or
                        \*   the process is no longer tracked
    stop_log,           \* what the stop_all that ran last did to each process it
                        \*   found: "terminate" or "raised"; <<>> after any other step
    \* -- console
    main,               \* the main thread: [pc, minutes, process, thread]; minutes
                        \*   and process are the locals of close_after_time, thread the
                        \*   one of repeat_every_time (positions in running_processes
                        \*   and threads), 0 elsewhere
    timers,             \* self.timers, in order of append, without the timers that
                        \*   are over (cancelled, or fired and their function returned)
    threads,            \* the run_periodically threads started by repeat_every_time
    printed             \* the last line the program printed

gvars == <<timer, schedule_timer, sched_conns, shots, close_button, repeat_button,
           schedule_button, stop_enabled, status_label, msgbox, scheduled_time,
           close_proc, stop_log>>
pvars == <<script_path, running_processes>>
cvars == <<main, timers, threads, printed>>
vars == <<now, pvars, gvars, cvars>>

Paths == {"", "a"}

\* ------------------------------------------------------------ helpers
SeqDelete(s, i) ==
    [j \in 1..(Len(s) - 1) |-> IF j < i THEN s[j] ELSE s[j + 1]]

\* process.poll(): None while the process runs.
poll(process) == IF process.st = "running" THEN "None" ELSE "returncode"

\* What a launch acts on.
World == [running_processes |-> running_processes, status_label |-> status_label,
          close_proc |-> close_proc]

\* subprocess.Popen([self.script_path]) followed by running_processes.append;
\* ok = FALSE: Popen raises and nothing is appended.
Popen(w, ok) ==
    IF ok
    THEN [w EXCEPT !.running_processes = Append(@, [st |-> "running"])]
    ELSE w

\* ScriptTimer.run_script
run_script(w, ok) ==
    [Popen(w, ok) EXCEPT
        !.status_label = IF ok THEN "Script started" ELSE "Error running script"]

\* ScriptTimer.run_scheduled_script
run_scheduled_script(w, ok) ==
    [Popen(w, ok) EXCEPT
        !.status_label = IF ok THEN "Script scheduled started"
                         ELSE "Error running scheduled script"]

\* run_scheduled_script once per connected slot; oks[i] is the outcome of call i.
RECURSIVE run_scheduled_slots(_, _)
run_scheduled_slots(w, oks) ==
    IF oks = <<>> THEN w
    ELSE run_scheduled_slots(run_scheduled_script(w, Head(oks)), Tail(oks))

SetWorld(w) ==
    /\ Len(w.running_processes) <= MaxProcs
    /\ running_processes' = w.running_processes
    /\ status_label' = w.status_label
    /\ close_proc' = w.close_proc

\* QTimer.start(msec)
QTimerStart(msec) == [active |-> TRUE, interval |-> msec, remaining |-> msec]
\* QTimer.stop(); the interval of a stopped timer is never read and is not kept.
QTimerStop(t) == [active |-> FALSE, interval |-> 0, remaining |-> 0]

\* QTime.msecsTo and QTime.msecsSinceStartOfDay, on minutes of the day
msecsSinceStartOfDay(t) == t * MsPerMinute
msecsTo(from, to) == msecsSinceStartOfDay(to) - msecsSinceStartOfDay(from)

\* QTime.currentTime()
currentTime == now

\* The main thread in run(), about to read a menu choice.
AtMenu == [pc |-> "menu", minutes |-> 0, process |-> 0, thread |-> 0]

\* ------------------------------------------------------------ Init
\* The console's state after SimpleScriptTimer.__init__, before run() reads a choice.
ConsoleIdle ==
    /\ main = AtMenu
    /\ timers = <<>>
    /\ threads = <<>>
    /\ printed = ""

\* The window's state after ScriptTimer.__init__.
GuiIdle ==
    /\ timer = [active |-> FALSE, interval |-> 0, remaining |-> 0]
    /\ schedule_timer = [active |-> FALSE, interval |-> 0, remaining |-> 0]
    /\ sched_conns = 0
    /\ shots = <<>>
    /\ close_button = "start_close_timer"
    /\ repeat_button = "start_repeat_timer"
    /\ schedule_button = "start_schedule_timer"
    /\ stop_enabled = FALSE
    /\ status_label = "Ready"
    /\ msgbox = ""
    /\ scheduled_time = -1
    /\ close_proc = 0
    /\ stop_log = <<>>

InitGui ==
    /\ ConsoleIdle
    /\ now = 0
    /\ script_path = ""
    /\ running_processes = <<>>
    /\ GuiIdle

\* A click reaches a handler only while no modal dialog is open.
CanClick == msgbox = ""

\* ------------------------------------------------------------ GUI: handlers
select_script ==
    /\ CanClick
    /\ \E file_name \in Paths :
        IF file_name # ""
        THEN /\ script_path' = file_name
             /\ status_label' = "Script selected"
             /\ stop_log' = <<>>
        ELSE UNCHANGED <<script_path, status_label, stop_log>>
    /\ UNCHANGED <<cvars, now, running_processes, timer, schedule_timer, sched_conns, shots,
                   close_button, repeat_button, schedule_button, stop_enabled, msgbox,
                   scheduled_time, close_proc>>

\* A handler that warns and launches all the same.
WarnAndLaunch ==
    /\ msgbox' = "No Script"
    /\ running_processes' = Append(running_processes, [st |-> "running"])
    /\ UNCHANGED <<cvars, now, script_path, timer, schedule_timer, sched_conns, shots,
                   close_button, repeat_button, schedule_button, stop_enabled,
                   status_label, scheduled_time, close_proc, stop_log>>

\* QMessageBox.warning(self, "No Script", ...) and return
NoScriptWarning ==
    /\ msgbox' = "No Script"
    /\ UNCHANGED <<cvars, now, pvars, timer, schedule_timer, sched_conns, shots, close_button,
                   repeat_button, schedule_button, stop_enabled, status_label,
                   scheduled_time, close_proc, stop_log>>

\* The user dismisses the dialog.
close_msgbox ==
    /\ msgbox # ""
    /\ msgbox' = ""
    /\ UNCHANGED <<cvars, now, pvars, timer, schedule_timer, sched_conns, shots, close_button,
                   repeat_button, schedule_button, stop_enabled, status_label,
                   scheduled_time, close_proc, stop_log>>

start_close_timer ==
    /\ CanClick
    /\ close_button = "start_close_timer"
    /\ IF script_path = ""
       THEN NoScriptWarning
       ELSE \E value \in SpinMin..MaxSpin, ok \in BOOLEAN :
            /\ timer' = QTimerStart(value * MsPerMinute)
            /\ close_button' = "stop_close_timer"
            /\ stop_enabled' = TRUE
            /\ SetWorld([run_script(World, ok) EXCEPT
                            !.status_label = "Running script for minutes",
                            !.close_proc = IF ok THEN Len(running_processes) + 1
                                           ELSE 0])
            /\ stop_log' = <<>>
            /\ UNCHANGED <<cvars, now, script_path, schedule_timer, sched_conns, shots,
                           repeat_button, schedule_button, msgbox, scheduled_time>>

stop_close_timer ==
    /\ CanClick
    /\ close_button = "stop_close_timer"
    /\ timer' = QTimerStop(timer)
    /\ close_button' = "start_close_timer"
    /\ stop_enabled' = FALSE
    /\ status_label' = "Close timer stopped"
    /\ stop_log' = <<>>
    /\ UNCHANGED <<cvars, now, pvars, schedule_timer, sched_conns, shots, repeat_button,
                   schedule_button, msgbox, scheduled_time, close_proc>>

start_repeat_timer ==
    /\ CanClick
    /\ repeat_button = "start_repeat_timer"
    /\ IF script_path = ""
       THEN NoScriptWarning
       ELSE \E value \in SpinMin..MaxSpin, ok \in BOOLEAN :
            /\ timer' = QTimerStart(value * MsPerMinute)
            /\ repeat_button' = "stop_repeat_timer"
            /\ stop_enabled' = TRUE
            /\ SetWorld([run_script(World, ok) EXCEPT
                            !.status_label = "Script will repeat every minutes"])
            /\ stop_log' = <<>>
            /\ UNCHANGED <<cvars, now, script_path, schedule_timer, sched_conns, shots,
                           close_button, schedule_button, msgbox, scheduled_time>>

stop_repeat_timer ==
    /\ CanClick
    /\ repeat_button = "stop_repeat_timer"
    /\ timer' = QTimerStop(timer)
    /\ repeat_button' = "start_repeat_timer"
    /\ stop_enabled' = FALSE
    /\ status_label' = "Repeat timer stopped"
    /\ stop_log' = <<>>
    /\ UNCHANGED <<cvars, now, pvars, schedule_timer, sched_conns, shots, close_button,
                   schedule_button, msgbox, scheduled_time, close_proc>>

\* The delay start_schedule_timer computes for the time of day t at time of day today.
time_diff(t, today) ==
    IF t <= today
    THEN LET tomorrow == 0 IN
         msecsTo(today, tomorrow) + msecsSinceStartOfDay(t)
    ELSE msecsTo(today, t)

\* The pending callbacks s and one more that is due in msec, in the order in which
\* they are due; among equals the older one comes first.
Pending(s, msec) ==
    LET k == Cardinality({i \in 1..Len(s) : s[i] <= msec}) IN
    SubSeq(s, 1, k) \o <<msec>> \o SubSeq(s, k + 1, Len(s))

\* QTimer.singleShot(msec, slot): for a negative delay Qt arms no timer, or fires
\* the slot at once; both outcomes are allowed for (armed says which).
singleShot(msec, armed) ==
    IF msec >= 0 THEN Pending(shots, msec)
    ELSE IF armed THEN Pending(shots, 0) ELSE shots

start_schedule_timer ==
    /\ CanClick
    /\ schedule_button = "start_schedule_timer"
    /\ IF script_path = ""
       THEN NoScriptWarning
       ELSE \E t \in 0..(DayMinutes - 1), checked \in BOOLEAN, armed \in BOOLEAN :
            LET today == currentTime
                diff == time_diff(t, today) IN
            /\ Len(shots) < MaxShots
            /\ checked => sched_conns < MaxConns
            /\ diff >= 0 => armed
            /\ shots' = singleShot(diff, armed)
            /\ scheduled_time' = t
            /\ schedule_button' = "stop_schedule_timer"
            /\ stop_enabled' = TRUE
            /\ IF checked
               THEN /\ sched_conns' = sched_conns + 1
                    /\ schedule_timer' = QTimerStart(DayMs)
                    /\ status_label' = "Script scheduled to run daily"
               ELSE /\ UNCHANGED <<sched_conns, schedule_timer>>
                    /\ status_label' = "Script scheduled to run once"
            /\ stop_log' = <<>>
            /\ UNCHANGED <<cvars, now, pvars, timer, close_button, repeat_button, msgbox,
                           close_proc>>

stop_schedule_timer ==
    /\ CanClick
    /\ schedule_button = "stop_schedule_timer"
    /\ schedule_timer' = QTimerStop(schedule_timer)
    /\ schedule_button' = "start_schedule_timer"
    /\ stop_enabled' = FALSE
    /\ status_label' = "Schedule timer stopped"
    /\ scheduled_time' = -1
    /\ stop_log' = <<>>
    /\ UNCHANGED <<cvars, now, pvars, timer, sched_conns, shots, close_button,
                   repeat_button, msgbox, close_proc>>

\* ScriptTimer.check_processes: drop the processes that have finished.
check_processes(w) ==
    LET live(process) == poll(process) = "None"
        left == SelectSeq(w.running_processes, live) IN
    [w EXCEPT !.running_processes = left,
              !.status_label = IF left # w.running_processes
                               THEN "Script completed execution" ELSE @,
              !.close_proc = IF @ = 0 \/ ~live(w.running_processes[@]) THEN 0
                             ELSE Cardinality({j \in 1..@ : live(w.running_processes[j])})]

\* A loop over running_processes that leaves at the first terminate() that raises.
terminate_each_break(ps, raised) ==
    LET first == IF \E i \in 1..Len(ps) : raised[i]
                 THEN CHOOSE i \in 1..Len(ps) :
                        raised[i] /\ \A j \in 1..(i - 1) : ~raised[j]
                 ELSE Len(ps) IN
    [i \in 1..first |-> IF raised[i] THEN "raised" ELSE "terminate"]

\* The loop of stop_all over running_processes: terminate() in try/except on each
\* process, in order; raised[i] says whether the call on process i raises.
terminate_each(ps, raised) ==
    [i \in 1..Len(ps) |-> IF raised[i] THEN "raised" ELSE "terminate"]

stop_all ==
    /\ CanClick
    /\ stop_enabled
    /\ \E raised \in [1..Len(running_processes) -> BOOLEAN] :
        stop_log' = terminate_each(running_processes, raised)
    /\ running_processes' = <<>>
    /\ close_proc' = 0
    /\ timer' = QTimerStop(timer)
    /\ schedule_timer' = QTimerStop(schedule_timer)
    /\ close_button' = "start_close_timer"
    /\ repeat_button' = "start_repeat_timer"
    /\ schedule_button' = "start_schedule_timer"
    /\ stop_enabled' = FALSE
    /\ status_label' = "All timers stopped"
    /\ scheduled_time' = -1
    /\ UNCHANGED <<cvars, now, script_path, sched_conns, shots, msgbox>>

\* ------------------------------------------------------------ GUI: timer events
\* self.timer.timeout -> check_processes (the only slot connected to it).
timer_timeout ==
    /\ timer.active
    /\ timer.remaining = 0
    /\ timer' = [timer EXCEPT !.remaining = timer.interval]
    /\ SetWorld(check_processes(World))
    /\ stop_log' = <<>>
    /\ UNCHANGED <<cvars, now, script_path, schedule_timer, sched_conns, shots, close_button,
                   repeat_button, schedule_button, stop_enabled, msgbox,
                   scheduled_time>>

\* self.schedule_timer.timeout -> run_scheduled_script, once per connection.
schedule_timer_timeout ==
    /\ schedule_timer.active
    /\ schedule_timer.remaining = 0
    /\ schedule_timer' = [schedule_timer EXCEPT !.remaining = schedule_timer.interval]
    /\ \E oks \in [1..sched_conns -> BOOLEAN] :
        SetWorld(run_scheduled_slots(World, oks))
    /\ stop_log' = <<>>
    /\ UNCHANGED <<cvars, now, script_path, timer, sched_conns, shots, close_button,
                   repeat_button, schedule_button, stop_enabled, msgbox,
                   scheduled_time>>

\* A pending singleShot callback fires: run_scheduled_script.
singleShot_timeout ==
    /\ \E i \in 1..Len(shots) :
        /\ shots[i] = 0
        /\ shots' = SeqDelete(shots, i)
    /\ \E ok \in BOOLEAN : SetWorld(run_scheduled_script(World, ok))
    /\ stop_log' = <<>>
    /\ UNCHANGED <<cvars, now, script_path, timer, schedule_timer, sched_conns, close_button,
                   repeat_button, schedule_button, stop_enabled, msgbox,
                   scheduled_time>>

\* ------------------------------------------------------------ environment
\* A tracked process exits on its own.
ProcessExit ==
    /\ \E i \in 1..Len(running_processes) :
        /\ running_processes[i].st = "running"
        /\ running_processes' = [running_processes EXCEPT ![i].st = "exited"]
    /\ UNCHANGED <<cvars, now, script_path, gvars>>

GuiDue ==
    \/ timer.active /\ timer.remaining = 0
    \/ schedule_timer.active /\ schedule_timer.remaining = 0
    \/ \E i \in 1..Len(shots) : shots[i] = 0

Elapse(t) == IF t.active THEN [t EXCEPT !.remaining = @ - MsPerMinute] ELSE t

\* One minute passes; nothing that is due is skipped.
TickGui ==
    /\ ~GuiDue
    /\ now' = (now + 1) % DayMinutes
    /\ timer' = Elapse(timer)
    /\ schedule_timer' = Elapse(schedule_timer)
    /\ shots' = [i \in 1..Len(shots) |-> shots[i] - MsPerMinute]
    /\ stop_log' = <<>>
    /\ UNCHANGED <<cvars, pvars, sched_conns, close_button, repeat_button, schedule_button,
                   stop_enabled, status_label, msgbox, scheduled_time, close_proc>>

NextGui ==
    \/ select_script
    \/ close_msgbox
    \/ start_close_timer
    \/ stop_close_timer
    \/ start_repeat_timer
    \/ stop_repeat_timer
    \/ start_schedule_timer
    \/ stop_schedule_timer
    \/ stop_all
    \/ timer_timeout
    \/ schedule_timer_timeout
    \/ singleShot_timeout
    \/ ProcessExit
    \/ TickGui

SpecGui == InitGui /\ [][NextGui]_vars

\* The window under a running Qt event loop: time passes, and a timer or single
\* shot that is due fires.  Nothing is assumed of what the user clicks.
SpecGuiFair ==
    /\ SpecGui
    /\ WF_vars(TickGui)
    /\ WF_vars(timer_timeout)
    /\ WF_vars(schedule_timer_timeout)
    /\ WF_vars(singleShot_timeout)

\* ============================================================ console
\* What the user can type at a duration prompt: integers, or something else.
DurationTexts == {ToString(n) : n \in -1..MaxSpin} \cup {"abc"}

\* int(input(...)): the number, or ValueError.
int(text) ==
    IF \E n \in -1..MaxSpin : ToString(n) = text
    THEN [ok |-> TRUE, val |-> CHOOSE n \in -1..MaxSpin : ToString(n) = text]
    ELSE [ok |-> FALSE, val |-> 0]

\* What the user can type at the path prompt; os.path.exists holds of "a" only.
PathTexts == {"a", "missing", "cancel"}
exists(path) == path = "a"

\* threading.Timer(interval, function): armed by start(); a non-positive interval
\* is due at once.  process is the process the closure of stop_script holds; hm and
\* repeat_daily are what the closure of run_scheduled_script holds.
Timer(interval, function, process, hm, repeat_daily) ==
    [st |-> "armed", remaining |-> IF interval > 0 THEN interval ELSE 0,
     function |-> function, process |-> process, hm |-> hm,
     repeat_daily |-> repeat_daily]

\* A cancel() that stops nothing.
cancel_nothing(ts) == ts

\* Timer.cancel() on each timer of ts: a timer that has not fired yet never will;
\* one whose function is running is not affected.
cancel(ts) == SelectSeq(ts, LAMBDA t : t.st # "armed")

\* The finished thread.
Done == [pc |-> "done", minutes |-> 0, process |-> 0, remaining |-> 0]

Running == main.pc # "exited"

\* A select_script that stores whatever was entered.
stored_path_unchecked(old, path) == path

\* self.script_path after select_script was given path: assigned only when
\* os.path.exists(path).
stored_path(old, path) == IF exists(path) THEN path ELSE old

\* SimpleScriptTimer.select_script, and run() leaving its loop when it returns False.
simple_select_script ==
    /\ main.pc = "menu"
    /\ \E path \in PathTexts :
        IF path = "cancel"
        THEN /\ main' = [main EXCEPT !.pc = "exited"]
             /\ UNCHANGED <<script_path, printed>>
        ELSE IF ~exists(path)
        THEN /\ printed' = "Error: File not found!"
             /\ main' = [main EXCEPT !.pc = "exited"]
             /\ script_path' = stored_path(script_path, path)
        ELSE /\ script_path' = stored_path(script_path, path)
             /\ printed' = "Selected script"
             /\ UNCHANGED main
    /\ UNCHANGED <<gvars, now, running_processes, timers, threads>>

\* run(): choice "5", or a choice that is no option.
menu_other ==
    /\ main.pc = "menu"
    /\ \E choice \in {"5", "x"} :
        IF choice = "5"
        THEN /\ printed' = "Goodbye!"
             /\ main' = [main EXCEPT !.pc = "exited"]
        ELSE /\ printed' = "Invalid option. Please try again."
             /\ UNCHANGED main
    /\ UNCHANGED <<gvars, now, pvars, timers, threads>>

\* SimpleScriptTimer.close_after_time up to process.wait()
close_after_time ==
    /\ main.pc = "menu"
    /\ IF script_path = ""
       THEN /\ printed' = "No script selected!"
            /\ UNCHANGED <<main, running_processes, timers>>
       ELSE \E text \in DurationTexts, ok \in BOOLEAN :
            LET minutes == int(text) IN
            IF ~minutes.ok
            THEN /\ printed' = "Invalid input! Please enter a number."
                 /\ UNCHANGED <<main, running_processes, timers>>
            ELSE IF ~ok
            THEN /\ printed' = "Error running script"
                 /\ UNCHANGED <<main, running_processes, timers>>
            ELSE /\ Len(running_processes) < MaxProcs
                 /\ Len(timers) < MaxTimers
                 /\ printed' = "Script started"
                 /\ running_processes' = Append(running_processes, [st |-> "running"])
                 /\ timers' = Append(timers,
                        Timer(minutes.val * SecPerMinute, "stop_script",
                              Len(running_processes) + 1, 0, FALSE))
                 /\ main' = [pc |-> "close_wait", minutes |-> minutes.val,
                             process |-> Len(running_processes) + 1, thread |-> 0]
    /\ UNCHANGED <<gvars, now, script_path, threads>>

\* close_after_time from process.wait() on: wait() returns because the process has
\* ended, or raises KeyboardInterrupt (interrupt), which the bare except swallows;
\* then timer.cancel().
close_after_time_return ==
    /\ main.pc = "close_wait"
    /\ \E interrupt \in BOOLEAN :
        ~interrupt => running_processes[main.process].st # "running"
    /\ timers' = SelectSeq(timers, LAMBDA t : t.process # main.process)
                  \o cancel(SelectSeq(timers, LAMBDA t : t.process = main.process))
    /\ main' = AtMenu
    /\ UNCHANGED <<gvars, now, pvars, threads, printed>>

\* stop_script, the function of the Timer of close_after_time, on its timer thread:
\* process.terminate() in try/except.
stop_script ==
    /\ \E k \in 1..Len(timers), raises \in BOOLEAN :
        /\ timers[k].st = "armed"
        /\ timers[k].remaining = 0
        /\ timers[k].function = "stop_script"
        /\ timers' = SeqDelete(timers, k)
        /\ IF raises
           THEN UNCHANGED <<running_processes, printed>>
           ELSE /\ running_processes' =
                    [running_processes EXCEPT ![timers[k].process].st =
                        IF @ = "running" THEN "terminated" ELSE @]
                /\ printed' = "Script closed after specified time."
    /\ UNCHANGED <<gvars, now, script_path, main, threads>>

\* A sleep that returns at once.
sleep_not(th, seconds) == [th EXCEPT !.pc = "run"]

\* time.sleep(seconds) of run_periodically: ValueError for a negative length, caught
\* by "except Exception", which leaves the loop.
sleep(th, seconds) ==
    IF seconds < 0 THEN Done
    ELSE [th EXCEPT !.pc = "sleep", !.remaining = seconds]

\* SimpleScriptTimer.repeat_every_time up to thread.join()
repeat_every_time ==
    /\ main.pc = "menu"
    /\ IF script_path = ""
       THEN /\ printed' = "No script selected!"
            /\ UNCHANGED <<main, threads>>
       ELSE \E text \in DurationTexts :
            LET minutes == int(text) IN
            IF ~minutes.ok
            THEN /\ printed' = "Invalid input! Please enter a number."
                 /\ UNCHANGED <<main, threads>>
            ELSE /\ Len(threads) < MaxThreads
                 /\ printed' = "Running script every minutes (Ctrl+C to stop)..."
                 /\ threads' = Append(threads, [pc |-> "run", minutes |-> minutes.val,
                                                process |-> 0, remaining |-> 0])
                 /\ main' = [pc |-> "repeat_join", minutes |-> 0, process |-> 0,
                             thread |-> Len(threads) + 1]
    /\ UNCHANGED <<gvars, now, pvars, timers>>

\* run_periodically: self.run_script(), then process.wait() when it started one,
\* else straight to time.sleep.
run_periodically_launch ==
    /\ Running
    /\ \E k \in 1..Len(threads), ok \in BOOLEAN :
        /\ threads[k].pc = "run"
        /\ IF ok
           THEN /\ Len(running_processes) < MaxProcs
                /\ running_processes' = Append(running_processes, [st |-> "running"])
                /\ printed' = "Script started"
                /\ threads' = [threads EXCEPT ![k].pc = "wait",
                                              ![k].process = Len(running_processes) + 1]
           ELSE /\ printed' = "Error running script"
                /\ threads' = [threads EXCEPT
                                  ![k] = sleep(@, @.minutes * SecPerMinute)]
                /\ UNCHANGED running_processes
    /\ UNCHANGED <<gvars, now, script_path, main, timers>>

\* run_periodically: process.wait() returns, time.sleep(minutes * 60) begins.
run_periodically_wait ==
    /\ Running
    /\ \E k \in 1..Len(threads) :
        /\ threads[k].pc = "wait"
        /\ running_processes[threads[k].process].st # "running"
        /\ threads' = [threads EXCEPT ![k] = sleep(@, @.minutes * SecPerMinute)]
    /\ UNCHANGED <<gvars, now, pvars, main, timers, printed>>

\* run_periodically: time.sleep returns and the loop starts over.
run_periodically_wake ==
    /\ Running
    /\ \E k \in 1..Len(threads) :
        /\ threads[k].pc = "sleep"
        /\ threads[k].remaining = 0
        /\ threads' = [threads EXCEPT ![k].pc = "run"]
    /\ UNCHANGED <<gvars, now, pvars, main, timers, printed>>

\* repeat_every_time from thread.join() on: the thread has ended, or
\* KeyboardInterrupt reaches the main thread.
repeat_every_time_return ==
    /\ main.pc = "repeat_join"
    /\ \E interrupt \in BOOLEAN :
        IF interrupt
        THEN printed' = "Periodic execution stopped."
        ELSE threads[main.thread].pc = "done" /\ UNCHANGED printed
    /\ main' = AtMenu
    /\ UNCHANGED <<gvars, now, pvars, timers, threads>>

\* The delay to HH:MM of today, also when that has passed.
delay_to_today(hm) == (hm - now) * SecPerMinute

\* datetime.now() as minutes since last midnight; a day later is DayMinutes more.
\* start_at_time: the delay to target_time, in seconds.
delay_to_target(hm) ==
    LET target_time == IF hm <= now THEN hm + DayMinutes ELSE hm IN
    (target_time - now) * SecPerMinute

\* run_scheduled_script: the delay to next_run, in seconds.
delay_to_next_run(hm) ==
    LET next_run == hm + DayMinutes IN
    (next_run - now) * SecPerMinute

\* SimpleScriptTimer.start_at_time up to the "while True: time.sleep(1)" loop
start_at_time ==
    /\ main.pc = "menu"
    /\ IF script_path = ""
       THEN /\ printed' = "No script selected!"
            /\ UNCHANGED <<main, timers>>
       ELSE \E valid \in BOOLEAN, hm \in 0..(DayMinutes - 1), repeat_daily \in BOOLEAN :
            IF ~valid
            THEN /\ printed' = "Invalid time format! Use HH:MM format (e.g., 14:30)"
                 /\ UNCHANGED <<main, timers>>
            ELSE /\ Len(timers) < MaxTimers
                 /\ printed' = "Timer set. Press Ctrl+C to exit."
                 /\ timers' = Append(timers,
                        Timer(delay_to_target(hm), "run_scheduled_script", 0, hm,
                              repeat_daily))
                 /\ main' = [pc |-> "sched_loop", minutes |-> 0, process |-> 0,
                             thread |-> 0]
    /\ UNCHANGED <<gvars, now, pvars, threads>>

\* run_scheduled_script of start_at_time, on a timer thread: self.run_script().
\* With repeat_daily the callback goes on to arm the next timer.
simple_run_scheduled_script ==
    /\ Running
    /\ \E k \in 1..Len(timers), ok \in BOOLEAN :
        /\ timers[k].st = "armed"
        /\ timers[k].remaining = 0
        /\ timers[k].function = "run_scheduled_script"
        /\ timers' = IF timers[k].repeat_daily
                      THEN [timers EXCEPT ![k].st = "running"]
                      ELSE SeqDelete(timers, k)
        /\ IF ok
           THEN /\ Len(running_processes) < MaxProcs
                /\ running_processes' = Append(running_processes, [st |-> "running"])
                /\ printed' = "Script started"
           ELSE /\ printed' = "Error running script"
                /\ UNCHANGED running_processes
    /\ UNCHANGED <<gvars, now, script_path, main, threads>>

\* run_scheduled_script with repeat_daily, after the launch: a new Timer for
\* next_run is started and appended to self.timers.
simple_run_scheduled_rearm ==
    /\ Running
    /\ \E k \in 1..Len(timers) :
        /\ timers[k].st = "running"
        /\ timers' = Append(SeqDelete(timers, k),
                        Timer(delay_to_next_run(timers[k].hm), "run_scheduled_script",
                              0, timers[k].hm, TRUE))
    /\ UNCHANGED <<gvars, now, pvars, main, threads, printed>>

\* start_at_time: KeyboardInterrupt in the sleep loop; every timer of self.timers
\* is cancelled.
start_at_time_interrupt ==
    /\ main.pc = "sched_loop"
    /\ printed' = "Exiting..."
    /\ timers' = cancel(timers)
    /\ main' = AtMenu
    /\ UNCHANGED <<gvars, now, pvars, threads>>

\* KeyboardInterrupt at the menu prompt: nothing catches it and the program ends.
menu_interrupt ==
    /\ main.pc = "menu"
    /\ main' = [main EXCEPT !.pc = "exited"]
    /\ UNCHANGED <<gvars, now, pvars, timers, threads, printed>>

\* Something on a thread is due now.
ConsoleDue ==
    \/ \E k \in 1..Len(timers) :
        \/ timers[k].st = "armed" /\ timers[k].remaining = 0
        \/ timers[k].st = "running"
    \/ \E k \in 1..Len(threads) :
        \/ threads[k].pc = "run"
        \/ threads[k].pc = "sleep" /\ threads[k].remaining = 0

\* One minute passes; nothing that is due is skipped.
TickConsole ==
    /\ Running
    /\ ~ConsoleDue
    /\ now' = (now + 1) % DayMinutes
    /\ timers' = [k \in 1..Len(timers) |->
                    IF timers[k].st = "armed"
                    THEN [timers[k] EXCEPT !.remaining = @ - SecPerMinute]
                    ELSE timers[k]]
    /\ threads' = [k \in 1..Len(threads) |->
                    IF threads[k].pc = "sleep"
                    THEN [threads[k] EXCEPT !.remaining = @ - SecPerMinute]
                    ELSE threads[k]]
    /\ UNCHANGED <<gvars, pvars, main, printed>>

InitConsole ==
    /\ now \in 0..(DayMinutes - 1)
    /\ script_path = ""
    /\ running_processes = <<>>
    /\ ConsoleIdle
    /\ GuiIdle

NextConsole ==
    \/ simple_select_script
    \/ menu_other
    \/ menu_interrupt
    \/ close_after_time
    \/ close_after_time_return
    \/ stop_script
    \/ repeat_every_time
    \/ run_periodically_launch
    \/ run_periodically_wait
    \/ run_periodically_wake
    \/ repeat_every_time_return
    \/ start_at_time
    \/ simple_run_scheduled_script
    \/ simple_run_scheduled_rearm
    \/ start_at_time_interrupt
    \/ ProcessExit
    \/ TickConsole

SpecConsole == InitConsole /\ [][NextConsole]_vars

\* ============================================================ either program
\* A run is a run of one of the two programs: the window's handlers act only while
\* the console has not been used, and the console only while the window has not.
NextEither ==
    \/ ConsoleIdle /\ NextGui
    \/ GuiIdle /\ NextConsole

SpecEither == InitConsole /\ [][NextEither]_vars

\* ============================================================ GUI: claims

\* C1: in the GUI, when the timer armed by start_close_timer times out while the
\* process that start_close_timer launched is still running, that process is
\* terminated (it is no longer a running tracked process), without Stop All.
C1_CloseTimerTerminates ==
    [][(/\ timer_timeout
        /\ close_button = "stop_close_timer"
        /\ close_proc # 0
        /\ running_processes[close_proc].st = "running")
       => (close_proc' = 0 \/ running_processes'[close_proc'].st # "running")]_vars

\* C2: in the GUI, while the repeat policy is active every timeout of the timer
\* launches the script again: run_script runs, which leaves its own status
\* ("Script started", or "Error running script" when the spawn fails).
C2_RepeatTickLaunches ==
    [][(timer_timeout /\ repeat_button = "stop_repeat_timer")
       => status_label' \in {"Script started", "Error running script"}]_vars

\* C3: in the GUI, once stop_schedule_timer or stop_all has run (the schedule button
\* is back to "Start"), nothing of the schedule stays armed for a later time: the
\* schedule timer is inactive and no callback is pending with time left on it.
C3_StopLeavesNothingArmed ==
    schedule_button = "start_schedule_timer"
    => (~schedule_timer.active /\ \A i \in 1..Len(shots) : shots[i] = 0)

\* The time from today to the next occurrence of the time of day t, in ms:
\* t + 24h when t is not later than today.
NextOccurrenceMs(t, today) ==
    IF t <= today THEN DayMs - msecsTo(t, today) ELSE msecsTo(today, t)

\* C4: in the GUI, start_schedule_timer arms the single-shot launch with the delay
\* to the next occurrence of the chosen time: t - now when t is later than now,
\* 24h - (now - t), a value in (0, 24h], when t is now or earlier.
C4_TimeDiffIsNextOccurrence ==
    [][(schedule_button = "start_schedule_timer"
        /\ schedule_button' = "stop_schedule_timer")
       => shots' = Pending(shots, NextOccurrenceMs(scheduled_time', currentTime))]_vars

\* C6: in the GUI, a step of stop_all (the status becomes "All timers stopped")
\* empties running_processes, has called terminate() on every process that was in
\* it, whether or not a call raised, and leaves both timers inactive.
C6_StopAllStopsEverything ==
    [][(status_label # "All timers stopped" /\ status_label' = "All timers stopped")
       => /\ running_processes' = <<>>
          /\ Len(stop_log') = Len(running_processes)
          /\ ~timer'.active
          /\ ~schedule_timer'.active]_vars

\* stop_all has run on two processes or more, and a terminate() that raised was
\* followed by the terminate() of a later process.
C6_Witness ==
    /\ status_label = "All timers stopped"
    /\ running_processes = <<>>
    /\ \E i, j \in 1..Len(stop_log) :
        i < j /\ stop_log[i] = "raised" /\ stop_log[j] = "terminate"

\* The policies whose button shows "Stop".
ActivePolicies ==
    {b \in {close_button, repeat_button, schedule_button} :
        b \in {"stop_close_timer", "stop_repeat_timer", "stop_schedule_timer"}}

\* C7: in the GUI, at most one policy is active, and the timer of the close and
\* repeat policies is never armed together with a timer of the schedule policy.
C7_OnePolicyOneTimer ==
    /\ Cardinality(ActivePolicies) <= 1
    /\ ~(timer.active /\ (schedule_timer.active \/ shots # <<>>))

\* C9: in the GUI, every launch by the 24-hour schedule timer of the daily policy
\* happens at the chosen time of day.
C9_DailyLaunchAtChosenTime ==
    [][schedule_timer_timeout => currentTime = scheduled_time]_vars

\* ============================================================ console: claims
\* C5: in the console repeat_every_time, a run_periodically thread launches a
\* process only while the main thread is waiting for it in thread.join(): once
\* KeyboardInterrupt has taken the main thread back to the menu, the loop launches
\* nothing more.
C5_NoLaunchAfterStop ==
    [][\A k \in 1..Len(threads) :
         (threads[k].pc = "run" /\ threads'[k].pc = "wait")
         => (main.pc = "repeat_join" /\ main.thread = k)]_vars

\* The timers whose function is the stop_script that closes process p.
StopTimers(ts, p) ==
    SelectSeq(ts, LAMBDA t : t.function = "stop_script" /\ t.process = p)

ClosedMsg == "Script closed after specified time."

\* C8: a successful console close_after_time launches one process and arms one
\* Timer of its duration for it; that timer fires at most once, and when its
\* terminate() call returns the process is not running any more; a stop_script
\* timer is pending only while its call is waiting for its process, so none is
\* when close_after_time has returned.
C8_CloseAfterTime ==
    [][/\ (main.pc = "menu" /\ main'.pc = "close_wait")
          => /\ running_processes' = Append(running_processes, [st |-> "running"])
             /\ main'.process = Len(running_processes')
             /\ timers' = Append(timers,
                    [st |-> "armed", function |-> "stop_script",
                     process |-> main'.process, hm |-> 0, repeat_daily |-> FALSE,
                     remaining |-> IF main'.minutes > 0
                                   THEN main'.minutes * SecPerMinute ELSE 0])
       /\ (main.pc = "close_wait" /\ main'.pc = "close_wait"
           /\ StopTimers(timers, main.process) # <<>>
           /\ StopTimers(timers', main.process) = <<>>)
          => /\ StopTimers(timers, main.process)[1].remaining = 0
             /\ (running_processes[main.process].st = "running" /\ printed' = ClosedMsg)
                => running_processes'[main.process].st = "terminated"
             /\ \A p \in 1..Len(running_processes) :
                  p # main.process => running_processes'[p] = running_processes[p]
       /\ (main.pc = "close_wait" /\ main'.pc = "menu")
          => StopTimers(timers', main.process) = <<>>
       /\ \A p \in 1..Len(running_processes') :
            /\ Len(StopTimers(timers', p)) <= 1
            /\ StopTimers(timers', p) # <<>>
               => (main'.pc = "close_wait" /\ main'.process = p)
            /\ (StopTimers(timers', p) # <<>> /\ StopTimers(timers, p) = <<>>)
               => (main.pc = "menu" /\ p = Len(running_processes'))
      ]_vars

\* close_after_time has returned twice: once after its timer closed the process, once
\* after the process ended by itself and the timer was cancelled.
C8_Witness ==
    /\ main.pc = "menu"
    /\ timers = <<>>
    /\ \E p, q \in 1..Len(running_processes) :
        /\ running_processes[p].st = "terminated"
        /\ running_processes[q].st = "exited"

\* The time from now to the next occurrence of HH:MM, in seconds: the least positive
\* number of minutes after which the time of day is hm.
NextOccurrenceSec(hm) ==
    SecPerMinute * (CHOOSE m \in 1..DayMinutes :
                      /\ (now + m) % DayMinutes = hm
                      /\ \A n \in 1..(m - 1) : (now + n) % DayMinutes # hm)

ScheduleTimer(hm, repeat_daily, remaining) ==
    [st |-> "armed", function |-> "run_scheduled_script", process |-> 0,
     hm |-> hm, repeat_daily |-> repeat_daily, remaining |-> remaining]

\* The timers whose function has launched the script and has not returned yet.
InCallback(ts) == SelectSeq(ts, LAMBDA t : t.st = "running")

\* C10: the console start_at_time arms one Timer for the next occurrence of the
\* HH:MM entered; every armed timer of it is due exactly at its HH:MM; a firing
\* makes one launch attempt; without repeat_daily the firing arms nothing, and with
\* repeat_daily its callback arms exactly one new Timer, for the same HH:MM one day
\* later.
C10_StartAtTime ==
    [][/\ (main.pc = "menu" /\ main'.pc = "sched_loop")
          => \E hm \in 0..(DayMinutes - 1), repeat_daily \in BOOLEAN :
                timers' = Append(timers,
                            ScheduleTimer(hm, repeat_daily, NextOccurrenceSec(hm)))
       /\ \A k \in 1..Len(timers') :
            (timers'[k].function = "run_scheduled_script" /\ timers'[k].st = "armed")
            => /\ timers'[k].remaining \in 0..(DayMinutes * SecPerMinute)
               /\ (now' * SecPerMinute + timers'[k].remaining)
                    % (DayMinutes * SecPerMinute) = timers'[k].hm * SecPerMinute
       /\ \A k \in 1..Len(timers) :
            (/\ timers[k].function = "run_scheduled_script"
             /\ timers[k].st = "armed"
             /\ main' = main
             /\ timers' # timers
             /\ now' = now
             /\ timers' \in {SeqDelete(timers, k), [timers EXCEPT ![k].st = "running"]})
            => /\ timers[k].remaining = 0
               /\ timers[k].repeat_daily <=> (timers' # SeqDelete(timers, k))
               /\ \/ /\ running_processes' = Append(running_processes,
                                                    [st |-> "running"])
                     /\ printed' = "Script started"
                  \/ /\ running_processes' = running_processes
                     /\ printed' = "Error running script"
       /\ Len(InCallback(timers')) < Len(InCallback(timers))
          => /\ running_processes' = running_processes
             /\ \E j \in 1..Len(timers) :
                  /\ timers[j].st = "running"
                  /\ timers[j].repeat_daily
                  /\ timers' = Append(SeqDelete(timers, j),
                          ScheduleTimer(timers[j].hm, TRUE,
                                        DayMinutes * SecPerMinute))
      ]_vars

\* A daily schedule has fired, launched the script and armed the timer of the next
\* day, which is the only timer left.
C10_Witness ==
    /\ main.pc = "sched_loop"
    /\ printed = "Script started"
    /\ Len(running_processes) = MaxProcs
    /\ \E hm \in 0..(DayMinutes - 1) :
         timers = <<ScheduleTimer(hm, TRUE, DayMinutes * SecPerMinute)>>

\* The reports of the recoverable errors of the console.
ErrorReports ==
    {"Error: File not found!", "No script selected!", "Error running script",
     "Invalid input! Please enter a number.",
     "Invalid time format! Use HH:MM format (e.g., 14:30)"}

\* C11: in the console, when the report of a recoverable error appears while the
\* main thread is at the menu, the main thread is at the menu afterwards: the run
\* loop goes on.
C11_UsableAfterError ==
    [][(main.pc = "menu" /\ printed' # printed /\ printed' \in ErrorReports)
       => main'.pc = "menu"]_vars

\* C12: the console select_script, given a path that does not exist, reports it and
\* leaves script_path as it was; script_path changes only in a select_script that
\* reports the selection.
C12_NotFoundKeepsTarget ==
    [][/\ (printed' = "Error: File not found!" /\ printed # printed')
          => script_path' = script_path
       /\ script_path' # script_path
          => (main.pc = "menu" /\ printed' = "Selected script")]_vars

\* A script was selected, and a later select_script of a missing path was reported.
C12_Witness ==
    /\ script_path # ""
    /\ printed = "Error: File not found!"

\* C13: in the GUI, when start_close_timer, start_repeat_timer or the firing of a
\* scheduled single shot has run and no process was added to running_processes (the
\* spawn failed), the status it leaves is the launch-error message.
C13_LaunchFailureReported ==
    [][(/\ \/ close_button = "start_close_timer" /\ close_button' = "stop_close_timer"
           \/ repeat_button = "start_repeat_timer"
              /\ repeat_button' = "stop_repeat_timer"
           \/ Len(shots') < Len(shots)
        /\ running_processes' = running_processes)
       => status_label' \in {"Error running script",
                             "Error running scheduled script"}]_vars

\* C14: in both programs, a start operation invoked while no script is selected
\* gives the no-script report (the "No Script" dialog, "No script selected!") and
\* changes nothing else: no process, no timer, no thread, no button; and as long
\* as no script is selected there is no process, timer or thread at all.
C14_NoTarget ==
    [][/\ (script_path = ""
           /\ (start_close_timer \/ start_repeat_timer \/ start_schedule_timer))
          => /\ msgbox' = "No Script"
             /\ UNCHANGED <<cvars, now, pvars, timer, schedule_timer, sched_conns,
                            shots, close_button, repeat_button, schedule_button,
                            stop_enabled, status_label>>
       /\ (script_path = "" /\ (close_after_time \/ repeat_every_time \/ start_at_time))
          => /\ printed' = "No script selected!"
             /\ UNCHANGED <<gvars, now, pvars, main, timers, threads>>
       /\ script_path' = ""
          => /\ running_processes' = <<>>
             /\ timers' = <<>>
             /\ threads' = <<>>
             /\ shots' = <<>>
             /\ ~timer'.active
             /\ ~schedule_timer'.active
      ]_vars

\* A start operation of the window has been refused for want of a script.
C14_Witness ==
    /\ script_path = ""
    /\ msgbox = "No Script"
    /\ running_processes = <<>>

\* A tracked process has exited and is still in running_processes.
ExitedTracked == \E i \in 1..Len(running_processes) : running_processes[i].st = "exited"

\* C15: in the GUI, whenever a tracked process has exited on its own, a time comes
\* at which running_processes holds no exited process, whatever the policy and
\* without any click of the user.
C15_ExitedEventuallyRemoved == ExitedTracked ~> ~ExitedTracked

\* C16: in the console, when close_after_time returns to the menu,
\* running_processes holds no process that has exited or was terminated.
C16_OnlyLiveProcessesTracked ==
    [][(main.pc = "close_wait" /\ main'.pc = "menu")
       => \A i \in 1..Len(running_processes') :
            running_processes'[i].st = "running"]_vars

\* C17: in the console, close_after_time launches and arms its timer, and
\* repeat_every_time starts its loop, only for a duration that is a positive
\* number of minutes.
C17_DurationValidated ==
    [][/\ (main.pc = "menu" /\ main'.pc = "close_wait") => main'.minutes > 0
       /\ Len(threads') > Len(threads) => threads'[Len(threads')].minutes > 0]_vars

\* C18: in the console, once the KeyboardInterrupt handler of start_at_time has
\* cancelled the timers (the main thread has left the sleep loop), no timer of
\* run_scheduled_script is armed, whatever a callback was doing at that moment.
C18_CancelRaceFree ==
    main.pc # "sched_loop"
    => \A k \in 1..Len(timers) :
         ~(timers[k].function = "run_scheduled_script" /\ timers[k].st = "armed")

\* C19: in the GUI, a timeout of the 24-hour schedule_timer launches at most one
\* process, however often a daily schedule was started and stopped before.
C19_OneLaunchPerDailyTimeout ==
    [][schedule_timer_timeout
       => Len(running_processes') <= Len(running_processes) + 1]_vars

\* C20: in the console, a run_periodically loop launches only when the process it
\* launched before is over; it starts its sleep of minutes * 60 seconds only when
\* the process it waits for is over, and launches again only when the whole sleep
\* has elapsed, one minute of it per minute of the clock.
C20_LoopLaunchesSerialized ==
    [][\A k \in 1..Len(threads) :
        /\ (threads[k].pc = "run" /\ threads'[k].pc = "wait")
           => /\ running_processes' = Append(running_processes, [st |-> "running"])
              /\ threads'[k].process = Len(running_processes')
              /\ threads[k].process # 0
                 => running_processes[threads[k].process].st # "running"
        /\ (threads[k].pc = "wait" /\ threads'[k].pc # "wait")
           => /\ running_processes[threads[k].process].st # "running"
              /\ threads[k].minutes >= 0
                 => /\ threads'[k].pc = "sleep"
                    /\ threads'[k].remaining = threads[k].minutes * SecPerMinute
              /\ threads[k].minutes < 0 => threads'[k].pc = "done"
        /\ (threads[k].pc = "sleep" /\ threads'[k].pc # "sleep")
           => (threads[k].remaining = 0 /\ threads'[k].pc = "run")
        /\ (threads[k].pc = "sleep" /\ threads'[k].pc = "sleep")
           => \/ threads'[k].remaining = threads[k].remaining
              \/ /\ threads'[k].remaining = threads[k].remaining - SecPerMinute
                 /\ threads'[k].remaining >= 0
                 /\ now' # now
       ]_vars

\* A loop with a positive interval is waiting for the second process it launched;
\* the first one is over.
C20_Witness ==
    \E k \in 1..Len(threads) :
        /\ threads[k].pc = "wait"
        /\ threads[k].minutes > 0
        /\ threads[k].process = 2
        /\ running_processes[1].st = "exited"
        /\ running_processes[2].st = "running"
        /\ timers = <<>>

\* C21: in the GUI, a per-policy stop leaves running_processes alone, leaves the
\* timers of the other policies as they are (the timer of a policy that is still
\* active stays armed), and leaves Stop All enabled while a policy is still active.
C21_StopsAreIndependent ==
    [][(stop_close_timer \/ stop_repeat_timer \/ stop_schedule_timer)
       => /\ running_processes' = running_processes
          /\ ActivePolicies' # {} => stop_enabled'
          /\ stop_schedule_timer => timer' = timer
          /\ (stop_close_timer \/ stop_repeat_timer)
             => (schedule_timer' = schedule_timer /\ shots' = shots)
          /\ (stop_close_timer /\ repeat_button = "stop_repeat_timer")
             => timer'.active
          /\ (stop_repeat_timer /\ close_button = "stop_close_timer")
             => timer'.active]_vars

====
